---- MODULE Spec2Model ----
(***************************************************************************)
(* Model of the metrics-configuration-driven report pipeline:              *)
(*   src/src/utils/metrics_config.py  (configuration loader and resolvers) *)
(*   src/src/utils/spreadsheet.py     (Tabular Store access)               *)
(*   src/src/modules/google_ads.py    (query and record shaping)           *)
(*   src/src/main.py                  (top-level flow, merge and persist)  *)
(*                                                                         *)
(* A spreadsheet cell is a text: a tuple of one-character strings, so that *)
(* int(), str.lower() and the trimming of empty cells are computed on the  *)
(* characters.  The empty cell is <<>>.  None and NaN are one-element      *)
(* tuples whose element is no character.                                   *)
(***************************************************************************)
EXTENDS Integers, Sequences, FiniteSets, TLC

\* ------------------------------------------------------------------ bounds
MaxRows == 2        \* definition rows of a generated configuration sheet
MaxRuns == 2        \* pipeline runs (processes) on one destination
MaxResp == 2        \* rows of an Ads Query Service response

\* ------------------------------------------------------------ text values
E == <<>>
None == <<"None">>
NaN == <<"NaN">>

k_impressions == <<"i","m","p","r","e","s","s","i","o","n","s">>
k_clicks == <<"c","l","i","c","k","s">>
k_conversions == <<"c","o","n","v","e","r","s","i","o","n","s">>
k_cost_micros == <<"c","o","s","t","_","m","i","c","r","o","s">>
k_conversion_rate == <<"c","o","n","v","e","r","s","i","o","n","_","r","a","t","e">>
k_campaign_status == <<"c","a","m","p","a","i","g","n","_","s","t","a","t","u","s">>
k_period_days == <<"p","e","r","i","o","d","_","d","a","y","s">>
k_limit == <<"l","i","m","i","t">>
c_metrics == <<"m","e","t","r","i","c","s">>
c_name == <<"n","a","m","e">>
c_active == <<"a","c","t","i","v","e">>
c_calc == <<"c","a","l","c">>
c_parameter == <<"p","a","r","a","m","e","t","e","r">>
s_TRUE == <<"T","R","U","E">>
s_True == <<"T","r","u","e">>
s_true == <<"t","r","u","e">>
s_FALSE == <<"F","A","L","S","E">>
s_ENABLED == <<"E","N","A","B","L","E","D">>
s_PAUSED == <<"P","A","U","S","E","D">>
s_SEARCH == <<"S","E","A","R","C","H">>
s_abc == <<"a","b","c">>
s_7 == <<"7">>
s_0 == <<"0">>
s_m1 == <<"-", "1">>
f_cpc == <<"c","o","s","t","_","m","i","c","r","o","s","/","c","l","i","c","k","s">>
f_cvr == <<"c","o","n","v","e","r","s","i","o","n","s","/","c","l","i","c","k","s">>
k_cpc == <<"c","p","c">>
f_ratio == <<"i","m","p","r","e","s","s","i","o","n","s","/","2">>
h_campaign_id == <<"c","a","m","p","a","i","g","n","_","i","d">>
h_campaign_name == <<"c","a","m","p","a","i","g","n","_","n","a","m","e">>
h_status == <<"s","t","a","t","u","s">>
h_campaign_type == <<"c","a","m","p","a","i","g","n","_","t","y","p","e">>
h_retrieved_at == <<"r","e","t","r","i","e","v","e","d","_","a","t">>

\* ------------------------------------------------------- sequence helpers
Max2(a, b) == IF a >= b THEN a ELSE b
Min2(a, b) == IF a <= b THEN a ELSE b

RECURSIVE SelectIdx(_, _, _)
\* the indices i of s, in order, with Keep[i]
SelectIdx(n, Keep, i) ==
    IF i > n THEN <<>>
    ELSE (IF Keep[i] THEN <<i>> ELSE <<>>) \o SelectIdx(n, Keep, i + 1)

IsIn(x, s) == \E i \in 1..Len(s) : s[i] = x
NoDup(s) == \A i, j \in 1..Len(s) : i # j => s[i] # s[j]

RECURSIVE MaxLen(_)
MaxLen(rows) == IF rows = <<>> THEN 0 ELSE Max2(Len(Head(rows)), MaxLen(Tail(rows)))

\* ---------------------------------------------------- Python text builtins
UpperChars == <<"A","B","C","D","E","F","G","H","I","J","K","L","M",
                "N","O","P","Q","R","S","T","U","V","W","X","Y","Z">>
LowerChars == <<"a","b","c","d","e","f","g","h","i","j","k","l","m",
                "n","o","p","q","r","s","t","u","v","w","x","y","z">>
LowerChar(c) ==
    IF \E i \in 1..26 : UpperChars[i] = c
    THEN LowerChars[CHOOSE i \in 1..26 : UpperChars[i] = c]
    ELSE c
\* str.lower()
Lower(s) == [i \in 1..Len(s) |-> LowerChar(s[i])]

Digits == <<"0","1","2","3","4","5","6","7","8","9">>
IsDigit(c) == \E i \in 1..10 : Digits[i] = c
DigitVal(c) == (CHOOSE i \in 1..10 : Digits[i] = c) - 1

RECURSIVE StripLeft(_)
StripLeft(s) == IF s # <<>> /\ Head(s) = " " THEN StripLeft(Tail(s)) ELSE s
RECURSIVE StripRight(_)
StripRight(s) ==
    IF s # <<>> /\ s[Len(s)] = " " THEN StripRight(SubSeq(s, 1, Len(s) - 1)) ELSE s
Strip(s) == StripLeft(StripRight(s))

RECURSIVE DigitsVal(_, _)
DigitsVal(s, acc) ==
    IF s = <<>> THEN acc ELSE DigitsVal(Tail(s), acc * 10 + DigitVal(Head(s)))

\* int(x) of the Python runtime for a cell read from a sheet: None is a TypeError,
\* a text is stripped, takes an optional sign and then needs decimal digits only
\* (anything else is a ValueError).
IntOf(cell) ==
    IF cell = None THEN [exc |-> "TypeError", val |-> 0]
    ELSE LET t == Strip(cell)
             signed == t # <<>> /\ Head(t) \in {"-", "+"}
             body == IF signed THEN Tail(t) ELSE t
         IN IF body = <<>> \/ \E i \in 1..Len(body) : ~IsDigit(body[i])
            THEN [exc |-> "ValueError", val |-> 0]
            ELSE [exc |-> "", val |-> IF signed /\ Head(t) = "-"
                                      THEN 0 - DigitsVal(body, 0)
                                      ELSE DigitsVal(body, 0)]

RECURSIVE NatStr(_)
NatStr(n) == IF n < 10 THEN <<Digits[n + 1]>> ELSE NatStr(n \div 10) \o <<Digits[(n % 10) + 1]>>
\* str(n) of an integer
StrOf(n) == IF n < 0 THEN <<"-">> \o NatStr(0 - n) ELSE NatStr(n)

\* pandas.isna of a cell
IsNa(cell) == cell = None \/ cell = NaN

\* ------------------------------------------------------ the Tabular Store
\* A sheet is a grid: a sequence of rows, a row a sequence of cells.  The Sheets
\* service keeps no trailing empty cells of a row and no trailing empty rows.
RECURSIVE TrimRow(_)
TrimRow(row) ==
    IF row # <<>> /\ row[Len(row)] = E THEN TrimRow(SubSeq(row, 1, Len(row) - 1)) ELSE row
RECURSIVE TrimRows(_)
TrimRows(g) ==
    IF g # <<>> /\ g[Len(g)] = <<>> THEN TrimRows(SubSeq(g, 1, Len(g) - 1)) ELSE g
TrimGrid(g) == TrimRows([i \in 1..Len(g) |-> TrimRow(g[i])])

\* read_range: result.get('values', []) of values().get()
ReadRange(g) == TrimGrid(g)

\* One row of values().update() at column A: a cell the body carries replaces
\* the cell at its position, a null leaves it as it is, and the cells to the
\* right of the row written stay.  A NaN that the service accepts stores nothing.
UpdateRow(old, new) ==
    [j \in 1..Max2(Len(old), Len(new)) |->
        IF j <= Len(new) /\ new[j] # None
        THEN (IF new[j] = NaN THEN E ELSE new[j])
        ELSE (IF j <= Len(old) THEN old[j] ELSE E)]

\* a write that clears the range before it stores the values
WriteRange_Clear(g, values) ==
    TrimGrid([i \in 1..Len(values) |-> UpdateRow(<<>>, values[i])])

\* a write that drops the rows below the ones it carries
WriteRange_Truncate(g, values) ==
    TrimGrid([i \in 1..Len(values) |->
        UpdateRow(IF i <= Len(g) THEN g[i] ELSE <<>>, values[i])])

\* write_range at A1: the rows the body carries are updated in place, the rows
\* below them stay (the range is not cleared).
WriteRange(g, values) ==
    TrimGrid([i \in 1..Max2(Len(g), Len(values)) |->
        IF i <= Len(values)
        THEN UpdateRow(IF i <= Len(g) THEN g[i] ELSE <<>>, values[i])
        ELSE g[i]])

\* ------------------------------------------------------------- DataFrames
\* A DataFrame is its column labels and its rows, each row as wide as the labels.
EmptyDF == [columns |-> <<>>, data |-> <<>>]
PadRow(row, w) == [j \in 1..w |-> IF j <= Len(row) THEN row[j] ELSE None]

\* pandas.DataFrame(data, columns=headers) of a list of lists: short rows are
\* filled with None up to the widest row, and the widest row must be as wide as
\* the headers.
FrameOf(data, headers) ==
    IF data = <<>> THEN [exc |-> "", df |-> [columns |-> headers, data |-> <<>>]]
    ELSE IF MaxLen(data) # Len(headers) THEN [exc |-> "ValueError", df |-> EmptyDF]
    ELSE [exc |-> "",
          df |-> [columns |-> headers,
                  data |-> [i \in 1..Len(data) |-> PadRow(data[i], Len(headers))]]]

\* read_as_dataframe(header=True) of the values read_range returned
ReadAsDataframe(values) ==
    IF values = <<>> THEN [exc |-> "", df |-> EmptyDF]
    ELSE FrameOf(Tail(values), Head(values))

\* a frame is empty only when it has no labels
DfEmpty_NoLabels(df) == Len(df.columns) = 0

\* DataFrame.empty
DfEmpty(df) == Len(df.columns) = 0 \/ Len(df.data) = 0

\* write_dataframe(include_header=True): the values handed to write_range
FrameValues(df) == <<df.columns>> \o df.data

ColIndex(columns, name) ==
    IF IsIn(name, columns) THEN CHOOSE j \in 1..Len(columns) : columns[j] = name /\
                                    \A k \in 1..(j - 1) : columns[k] # name
    ELSE 0

Reindex(df, columns) ==
    [i \in 1..Len(df.data) |->
        [j \in 1..Len(columns) |->
            IF ColIndex(df.columns, columns[j]) = 0 THEN NaN
            ELSE df.data[i][ColIndex(df.columns, columns[j])]]]

\* a concatenation that puts the rows of b first
Concat_NewFirst(a, b) ==
    [exc |-> "", df |-> [columns |-> b.columns, data |-> b.data \o a.data]]

\* pandas.concat([a, b], ignore_index=True): rows of a then rows of b, over the
\* labels of a followed by the labels only b has; a cell a frame has no label for
\* is NaN.  Frames with unequal labels cannot be aligned when a label repeats.
Concat(a, b) ==
    IF a.columns = b.columns
    THEN [exc |-> "", df |-> [columns |-> a.columns, data |-> a.data \o b.data]]
    ELSE IF ~NoDup(a.columns) \/ ~NoDup(b.columns)
    THEN [exc |-> "InvalidIndexError", df |-> EmptyDF]
    ELSE LET extra == SelectIdx(Len(b.columns),
                                [j \in 1..Len(b.columns) |-> ~IsIn(b.columns[j], a.columns)], 1)
             cols == a.columns \o [k \in 1..Len(extra) |-> b.columns[extra[k]]]
         IN [exc |-> "", df |-> [columns |-> cols,
                                 data |-> Reindex(a, cols) \o Reindex(b, cols)]]

\* ------------------------------------------------- configuration resolvers
\* The operators below take the cached configuration DataFrame and return
\* [exc, val]: exc names the exception the call raises ("" when it returns).
ReservedKeys == {k_campaign_status, k_period_days, k_limit}

\* metrics_df[col] == True | == 'TRUE' | == 'True' on a cell read from a sheet
\* (the read yields texts, and no text equals the boolean True)
IsActiveCell(cell) == cell = s_TRUE \/ cell = s_True

\* the for loop with break: the first label whose lower() is `name`
FirstLabel(columns, name) ==
    IF \E j \in 1..Len(columns) : Lower(columns[j]) = name
    THEN CHOOSE j \in 1..Len(columns) : Lower(columns[j]) = name /\
             \A k \in 1..(j - 1) : Lower(columns[k]) # name
    ELSE 0
\* the for loop without break: the last label whose lower() is `name`
LastLabel(columns, name) ==
    IF \E j \in 1..Len(columns) : Lower(columns[j]) = name
    THEN CHOOSE j \in 1..Len(columns) : Lower(columns[j]) = name /\
             \A k \in (j + 1)..Len(columns) : Lower(columns[k]) # name
    ELSE 0

\* the rows of df, in order, whose index keep marks (boolean indexing)
RowsWhere(df, keep) ==
    LET idx == SelectIdx(Len(df.data), keep, 1)
    IN [k \in 1..Len(idx) |-> df.data[idx[k]]]

ExcludedFields == {k_campaign_status, k_period_days, k_limit}

\* get_active_metrics_list without its filter on the calc column
GetActiveMetricsList_KeepCalculated(df) ==
    LET ac == FirstLabel(df.columns, c_active)
        mc == ColIndex(df.columns, c_metrics)
        Keep(row) == (ac = 0 \/ IsActiveCell(row[ac])) /\ row[mc] \notin ExcludedFields
        rows == RowsWhere(df, [i \in 1..Len(df.data) |-> Keep(df.data[i])])
    IN [exc |-> "", val |-> [k \in 1..Len(rows) |-> rows[k][mc]]]

\* get_active_metrics_list without its filter on the active column
GetActiveMetricsList_KeepInactive(df) ==
    LET cc == FirstLabel(df.columns, c_calc)
        mc == ColIndex(df.columns, c_metrics)
        Keep(row) == row[mc] \notin ExcludedFields /\ (cc = 0 \/ IsNa(row[cc]) \/ row[cc] = E)
        rows == RowsWhere(df, [i \in 1..Len(df.data) |-> Keep(df.data[i])])
    IN [exc |-> "", val |-> [k \in 1..Len(rows) |-> rows[k][mc]]]

\* get_active_metrics_list: the active rows (every row when no label is
\* 'active'), then those that are no reserved key and have no formula
GetActiveMetricsList(df) ==
    LET ac == FirstLabel(df.columns, c_active)
        cc == FirstLabel(df.columns, c_calc)
        mc == ColIndex(df.columns, c_metrics)
        Active(row) == IsActiveCell(row[ac])
        active_metrics == IF ac = 0 THEN df
                          ELSE [columns |-> df.columns,
                                data |-> RowsWhere(df, [i \in 1..Len(df.data) |->
                                                           Active(df.data[i])])]
        WithCalc(row) == row[mc] \notin ExcludedFields /\ (IsNa(row[cc]) \/ row[cc] = E)
        NoCalc(row) == row[mc] \notin ExcludedFields
    IN IF mc = 0 THEN [exc |-> "KeyError", val |-> <<>>]
       ELSE LET n == Len(active_metrics.data)
                rows == IF cc # 0
                        THEN RowsWhere(active_metrics,
                                       [i \in 1..n |-> WithCalc(active_metrics.data[i])])
                        ELSE RowsWhere(active_metrics,
                                       [i \in 1..n |-> NoCalc(active_metrics.data[i])])
            IN [exc |-> "", val |-> [k \in 1..Len(rows) |-> rows[k][mc]]]

\* dict[key] = value on an insertion-ordered dict held as a sequence of entries
DictSet(d, key, value) ==
    IF \E i \in 1..Len(d) : d[i].key = key
    THEN [i \in 1..Len(d) |-> IF d[i].key = key THEN [key |-> key, value |-> value] ELSE d[i]]
    ELSE Append(d, [key |-> key, value |-> value])
DictKeys(d) == [i \in 1..Len(d) |-> d[i].key]
DictHas(d, key) == \E i \in 1..Len(d) : d[i].key = key
DictGet(d, key) == d[CHOOSE i \in 1..Len(d) : d[i].key = key].value

RECURSIVE CalcDict(_, _, _, _)
CalcDict(rows, mc, nc, cc) ==
    IF rows = <<>> THEN <<>>
    ELSE LET r == rows[Len(rows)]
         IN DictSet(CalcDict(SubSeq(rows, 1, Len(rows) - 1), mc, nc, cc),
                    r[mc], [name |-> r[nc], calc |-> r[cc]])

\* get_calculated_metrics: val is the dict {key: {name, calc}}
GetCalculatedMetrics(df) ==
    LET ac == LastLabel(df.columns, c_active)
        cc == LastLabel(df.columns, c_calc)
        mc == ColIndex(df.columns, c_metrics)
        nc == ColIndex(df.columns, c_name)
        Calc(row) == /\ (ac = 0 \/ IsActiveCell(row[ac]))
                     /\ ~IsNa(row[cc])
                     /\ row[cc] # E
    IN IF cc = 0 THEN [exc |-> "", val |-> <<>>]
       ELSE LET rows == RowsWhere(df, [i \in 1..Len(df.data) |-> Calc(df.data[i])])
            IN IF rows # <<>> /\ (mc = 0 \/ nc = 0) THEN [exc |-> "KeyError", val |-> <<>>]
               ELSE [exc |-> "", val |-> CalcDict(rows, mc, nc, cc)]

\* get_period_days and get_limit: the first row whose key is `key`, its
\* parameter cell through int(), the default on ValueError or without a row
IntParameter(df, key, default) ==
    LET mc == ColIndex(df.columns, c_metrics)
        pc == ColIndex(df.columns, c_parameter)
        IsKey(row) == row[mc] = key
    IN IF mc = 0 THEN [exc |-> "KeyError", val |-> 0]
       ELSE LET rows == RowsWhere(df, [i \in 1..Len(df.data) |-> IsKey(df.data[i])])
            IN IF rows = <<>> THEN [exc |-> "", val |-> default]
               ELSE IF pc = 0 THEN [exc |-> "KeyError", val |-> 0]
               ELSE LET n == IntOf(rows[1][pc])
                    IN IF n.exc = "ValueError" THEN [exc |-> "", val |-> default]
                       ELSE n
DefaultPeriodDays == 30
DefaultLimit == 100
GetPeriodDays(df) == IntParameter(df, k_period_days, DefaultPeriodDays)
GetLimit(df) == IntParameter(df, k_limit, DefaultLimit)

\* get_active_metrics: the active rows that are no reserved key
GetActiveMetrics(df) ==
    LET ac == ColIndex(df.columns, c_active)
        mc == ColIndex(df.columns, c_metrics)
        Keep(row) == IsActiveCell(row[ac]) /\ row[mc] \notin ReservedKeys
    IN IF ac = 0 \/ mc = 0 THEN [exc |-> "KeyError", val |-> <<>>]
       ELSE LET rows == RowsWhere(df, [i \in 1..Len(df.data) |-> Keep(df.data[i])])
            IN [exc |-> "", val |-> [k \in 1..Len(rows) |-> rows[k][mc]]]

\* get_query_parameters: one reserved key of the loop over the active rows.
\* val is [set, int, text]: whether params[param] was assigned, and the value.
QueryParameter(df, param) ==
    LET ac == ColIndex(df.columns, c_active)
        mc == ColIndex(df.columns, c_metrics)
        pc == ColIndex(df.columns, c_parameter)
        Keep(row) == IsActiveCell(row[ac]) /\ row[mc] = param
        rows == RowsWhere(df, [i \in 1..Len(df.data) |-> Keep(df.data[i])])
        unset == [exc |-> "", set |-> FALSE, int |-> 0, text |-> E]
    IN IF rows = <<>> THEN unset
       ELSE IF pc = 0 THEN [unset EXCEPT !.exc = "KeyError"]
       ELSE IF IsNa(rows[1][pc]) THEN unset
       ELSE IF param \in {k_period_days, k_limit}
       THEN LET n == IntOf(rows[1][pc])
            IN [exc |-> n.exc, set |-> n.exc = "", int |-> n.val, text |-> E]
       ELSE [exc |-> "", set |-> TRUE, int |-> 0, text |-> rows[1][pc]]

\* get_query_parameters: val is the params dict with its three keys
GetQueryParameters(df) ==
    LET ac == ColIndex(df.columns, c_active)
        mc == ColIndex(df.columns, c_metrics)
        st == QueryParameter(df, k_campaign_status)
        pd == QueryParameter(df, k_period_days)
        lm == QueryParameter(df, k_limit)
        failed == [exc |-> "KeyError", campaign_status |-> E, period_days |-> 0, limit |-> 0]
    IN IF ac = 0 \/ mc = 0 THEN failed
       ELSE IF st.exc # "" THEN [failed EXCEPT !.exc = st.exc]
       ELSE IF pd.exc # "" THEN [failed EXCEPT !.exc = pd.exc]
       ELSE IF lm.exc # "" THEN [failed EXCEPT !.exc = lm.exc]
       ELSE [exc |-> "",
             campaign_status |-> IF st.set THEN st.text ELSE s_ENABLED,
             period_days |-> IF pd.set THEN pd.int ELSE DefaultPeriodDays,
             limit |-> IF lm.set THEN lm.int ELSE DefaultLimit]

\* ---------------------------------------------------------------- numbers
\* A Python number is held as a fraction in lowest terms with d > 0.
RECURSIVE Gcd(_, _)
Gcd(a, b) == IF b = 0 THEN a ELSE Gcd(b, a % b)
Abs(a) == IF a < 0 THEN 0 - a ELSE a
Frac(n, d) ==
    LET g == Gcd(Abs(n), Abs(d))
        sg == IF d < 0 THEN 0 - 1 ELSE 1
    IN [n |-> sg * (n \div g), d |-> sg * (d \div g)]
Num(n) == [n |-> n, d |-> 1]
FracDiv(a, b) == Frac(a.n * b.d, a.d * b.n)
\* the cell a number is written as
NumText(q) == IF q.d = 1 THEN StrOf(q.n) ELSE StrOf(q.n) \o <<"/">> \o StrOf(q.d)

\* ------------------------------------------------------- record shaping
FixedColumns == <<h_campaign_id, h_campaign_name, h_status, h_campaign_type>>
\* the fields the metrics message of a response row has
KnownMetrics == {k_impressions, k_clicks, k_cost_micros, k_conversions}

\* metrics_df[metrics_df['metrics'] == metric]['name'].values[0], else the key
DisplayNameOf(df, metric) ==
    LET mc == ColIndex(df.columns, c_metrics)
        nc == ColIndex(df.columns, c_name)
        IsKey(row) == row[mc] = metric
        rows == RowsWhere(df, [i \in 1..Len(df.data) |-> IsKey(df.data[i])])
    IN IF rows = <<>> THEN metric ELSE rows[1][nc]

\* eval(calc_expr, {"__builtins__": {}}, variables) for the formulas "a", "a/b":
\* an operand is a collected variable or an integer literal; anything else, and a
\* zero divisor, raises.
Operand(text, variables) ==
    LET t == Strip(text)
    IN IF DictHas(variables, t) THEN [exc |-> "", val |-> DictGet(variables, t)]
       ELSE IF IntOf(t).exc = "" /\ \A i \in 1..Len(t) : IsDigit(t[i])
       THEN [exc |-> "", val |-> Num(IntOf(t).val)]
       ELSE [exc |-> "NameError", val |-> Num(0)]
EvalFormula(expr, variables) ==
    IF expr = None \/ expr = NaN THEN [exc |-> "TypeError", val |-> Num(0)]
    ELSE IF IsIn("/", expr)
    THEN LET at == CHOOSE j \in 1..Len(expr) : expr[j] = "/" /\
                       \A k \in 1..(j - 1) : expr[k] # "/"
             a == Operand(SubSeq(expr, 1, at - 1), variables)
             b == Operand(SubSeq(expr, at + 1, Len(expr)), variables)
         IN IF a.exc # "" THEN a
            ELSE IF b.exc # "" THEN b
            ELSE IF b.val.n = 0 THEN [exc |-> "ZeroDivisionError", val |-> Num(0)]
            ELSE [exc |-> "", val |-> FracDiv(a.val, b.val)]
    ELSE Operand(expr, variables)

\* a derived value without the guarded division of conversion_rate
CalcValue_Unguarded(metric, expr, variables) == EvalFormula(expr, variables)
\* a derived value that is 0 when evaluating the formula raises
CalcValue_ZeroOnFault(metric, expr, variables) ==
    IF EvalFormula(expr, variables).exc = "" THEN EvalFormula(expr, variables)
    ELSE [exc |-> "", val |-> Num(0)]

\* the loop over calculated_metrics of one row: each derived field is the
\* formula's value (conversion_rate by its guarded division when conversions and
\* clicks were collected), or None when evaluating it raises
CalcValue(metric, expr, variables) ==
    IF metric = k_conversion_rate /\ DictHas(variables, k_conversions)
                                  /\ DictHas(variables, k_clicks)
    THEN (IF DictGet(variables, k_clicks).n > 0
          THEN [exc |-> "", val |-> FracDiv(DictGet(variables, k_conversions),
                                            DictGet(variables, k_clicks))]
          ELSE [exc |-> "", val |-> Num(0)])
    ELSE EvalFormula(expr, variables)
RECURSIVE AddCalculated(_, _, _)
AddCalculated(data, calcs, variables) ==
    IF calcs = <<>> THEN data
    ELSE LET c == Head(calcs)
             r == CalcValue(c.key, c.value.calc, variables)
         IN AddCalculated(DictSet(data, c.value.name,
                                  IF r.exc = "" THEN NumText(r.val) ELSE None),
                          Tail(calcs), variables)

\* the loop over active_metrics_list of one row: [data, variables]; value[m] is
\* the value of metric m on the row, has[m] whether the row has it
RECURSIVE AddMetrics(_, _, _, _, _)
AddMetrics(acc, df, metrics, value, has) ==
    IF metrics = <<>> THEN acc
    ELSE LET m == Head(metrics)
             next == IF has[m]
                     THEN [data |-> DictSet(acc.data, DisplayNameOf(df, m), NumText(value[m])),
                           variables |-> DictSet(acc.variables, m, value[m])]
                     ELSE acc
         IN AddMetrics(next, df, Tail(metrics), value, has)

\* one record (a dict) from its four dimensions and its metric values
ShapeRecord(dims, df, metrics, calcs, value, has) ==
    LET base == [j \in 1..4 |-> [key |-> FixedColumns[j], value |-> dims[j]]]
        m == AddMetrics([data |-> base, variables |-> <<>>], df, metrics, value, has)
    IN AddCalculated(m.data, calcs, m.variables)

KeysOf(metrics) == {metrics[j] : j \in 1..Len(metrics)}

\* a generator with the same value for every metric
DummyValue_Flat(i, metric) == Num(i * 10)
\* get_dummy_campaign_metrics: the value generated for campaign i
DummyValue(i, metric) ==
    IF metric = k_impressions THEN Num(i * 1000 + (i * 100))
    ELSE IF metric = k_clicks THEN Num(i * 50 + (i * 10))
    ELSE IF metric = k_cost_micros THEN Frac(i * 5000 + (i * 500), 1000000)
    ELSE IF metric = k_conversions THEN Frac(i * 20 + (i * 5), 10)
    ELSE Num(i * 10)
NumCampaigns == 10
DummyRecord(i, df, metrics, calcs) ==
    ShapeRecord(<<<<"1","0","0","0","0">> \o StrOf(i), <<"T">> \o StrOf(i), s_ENABLED, s_SEARCH>>,
                df, metrics, calcs,
                [m \in KeysOf(metrics) |-> DummyValue(i, m)],
                [m \in KeysOf(metrics) |-> TRUE])
\* a generator that makes one record less
GetDummyCampaignMetrics_Short(df, metrics, calcs) ==
    [i \in 1..(NumCampaigns - 1) |-> DummyRecord(i, df, metrics, calcs)]
GetDummyCampaignMetrics(df, metrics, calcs) ==
    [i \in 1..NumCampaigns |-> DummyRecord(i, df, metrics, calcs)]

\* row i of the response of the Ads Query Service to a pipeline run: its raw
\* metric values
RawValue(i, metric) ==
    IF metric = k_impressions THEN Num(100 * i)
    ELSE IF metric = k_cost_micros THEN Num(5000000 * i)
    ELSE Num(i - 1)
SampleRow(i) == [m \in KnownMetrics |-> RawValue(i, m)]
Micros == 1000000
\* a value that is not rescaled
LiveValue_Raw(raw, metric) == raw[metric]
\* value = getattr(metrics, metric), divided by 1000000 for cost_micros
LiveValue(raw, metric) ==
    IF metric = k_cost_micros THEN FracDiv(raw[metric], Num(Micros))
    ELSE raw[metric]
\* the record of row i of a response, raw its metric values
LiveRecord(i, raw, df, metrics, calcs) ==
    ShapeRecord(<<StrOf(i), <<"C">> \o StrOf(i), s_ENABLED, s_SEARCH>>,
                df, metrics, calcs,
                [m \in KeysOf(metrics) |-> IF m \in KnownMetrics THEN LiveValue(raw, m)
                                           ELSE Num(0)],
                [m \in KeysOf(metrics) |-> m \in KnownMetrics])
ShapeResponse(rows, df, metrics, calcs) ==
    [i \in 1..Len(rows) |-> LiveRecord(i, rows[i], df, metrics, calcs)]

\* pd.DataFrame(campaign_metrics) of records with the keys of the first one,
\* then df['retrieved_at'] = now
RecordsFrame(records, now) ==
    LET base == DictKeys(records[1])
        cols == IF IsIn(h_retrieved_at, base) THEN base ELSE Append(base, h_retrieved_at)
    IN [columns |-> cols,
        data |-> [i \in 1..Len(records) |->
                    [j \in 1..Len(cols) |->
                        IF cols[j] = h_retrieved_at THEN now
                        ELSE IF DictHas(records[i], cols[j]) THEN DictGet(records[i], cols[j])
                        ELSE NaN]]]

\* ------------------------------------------------ configuration sheets
FullHeader == <<c_metrics, c_name, c_active, c_calc, c_parameter>>
ConfigHeaders == {FullHeader}
DisplayName(key) == <<"n","_">> \o key
ActiveCells == {s_TRUE, s_true, s_FALSE}
FlagCells == {s_TRUE, s_FALSE}
CalcCells == {E, f_ratio}
IntCells == {E, s_7, s_abc, s_0, s_m1}
StatusCells == {E, s_PAUSED}
MetricKeys == {k_impressions, k_conversion_rate}
Definition(k, a, c, p) ==
    [metrics |-> k, name |-> DisplayName(k), active |-> a, calc |-> c, parameter |-> p]
Definitions ==
    {Definition(k, a, c, E) : k \in MetricKeys, a \in ActiveCells, c \in CalcCells}
    \cup {Definition(k, a, E, p) : k \in {k_period_days, k_limit}, a \in FlagCells,
                                   p \in IntCells}
    \cup {Definition(k, a, f_ratio, s_7) : k \in {k_period_days, k_limit}, a \in FlagCells}
    \cup {Definition(k_campaign_status, a, E, p) : a \in FlagCells, p \in StatusCells}
    \cup {Definition(k_campaign_status, a, f_ratio, s_PAUSED) : a \in FlagCells}
CellOf(def, col) ==
    IF col = c_metrics THEN def.metrics
    ELSE IF col = c_name THEN def.name
    ELSE IF col = c_active THEN def.active
    ELSE IF col = c_calc THEN def.calc
    ELSE def.parameter
\* the sheet row of a definition: its cells in header order, as the service
\* returns them (no trailing empty cells)
SheetRow(header, def) == TrimRow([j \in 1..Len(header) |-> CellOf(def, header[j])])
\* the definition tables of at most n rows; a key is unique within a table
Tables(n) ==
    UNION {{t \in [1..k -> Definitions] :
               \A i, j \in 1..k : i # j => t[i].metrics # t[j].metrics} : k \in 0..n}
SheetOf(header, t) == <<header>> \o [i \in 1..Len(t) |-> SheetRow(header, t[i])]
ConfigSheets ==
    {<<>>} \cup {SheetOf(h, t) : h \in ConfigHeaders, t \in Tables(MaxRows)}

\* the configuration sheets of the pipeline runs: impressions requested, with
\* and without a derived metric, and one parameter
PipelineTables ==
    {<<Definition(k_impressions, s_TRUE, E, E),
       Definition(k_limit, s_TRUE, E, s_7)>>,
     <<Definition(k_impressions, s_TRUE, E, E),
       Definition(k_conversion_rate, s_TRUE, f_ratio, E),
       Definition(k_period_days, s_TRUE, E, s_7),
       Definition(k_campaign_status, s_TRUE, E, s_PAUSED)>>}
PipelineSheets == {SheetOf(FullHeader, t) : t \in PipelineTables}

\* ------------------------------------------------------------------ state
VARIABLES
    cfgsheet,   \* the metrics configuration sheet of the Tabular Store
    sheet,      \* the destination sheet of the Tabular Store
    pc,         \* pc[r]: where run r is
    mode,       \* mode[r]: "test" (--test, dummy data), "live", or "query" (build_query)
    cache,      \* cache[r]: MetricsConfigUtils._metrics_df_cache of the process of r
    fields,     \* fields[r]: active_metrics_list
    calcs,      \* calcs[r]: calculated_metrics
    period,     \* period[r]: days_ago
    limit,      \* limit[r]: limit
    records,    \* records[r]: campaign_metrics
    frame,      \* frame[r]: df of main()
    existing,   \* existing[r]: existing_df of main()
    error,      \* error[r]: the exception that ended run r, "" when none
    before,     \* before[r]: the destination sheet when run r started
    reads,      \* reads[r]: the reads of the destination by r: [exc, values]
    writes,     \* writes[r]: the writes of the destination by r: [kind, values, ok]
    searches,   \* searches[r]: the search calls of r on the Ads Query Service
    loads,      \* loads[r]: the reads of the configuration sheet by r
    libMetrics, \* libMetrics[r]: result of get_active_metrics() in build_query()
    libParams   \* libParams[r]: result of get_query_parameters() in build_query()

vars == <<cfgsheet, sheet, pc, mode, cache, fields, calcs, period, limit, records,
          frame, existing, error, before, reads, writes, searches, loads,
          libMetrics, libParams>>

Runs == 1..MaxRuns
Ended == {"done", "stopped", "failed"}
NotCalled == [exc |-> "not called"]

InitRun ==
    /\ pc = [r \in Runs |-> "idle"]
    /\ mode = [r \in Runs |-> "live"]
    /\ cache = [r \in Runs |-> [set |-> FALSE, df |-> EmptyDF]]
    /\ fields = [r \in Runs |-> <<>>]
    /\ calcs = [r \in Runs |-> <<>>]
    /\ period = [r \in Runs |-> 0]
    /\ limit = [r \in Runs |-> 0]
    /\ records = [r \in Runs |-> <<>>]
    /\ frame = [r \in Runs |-> EmptyDF]
    /\ existing = [r \in Runs |-> EmptyDF]
    /\ error = [r \in Runs |-> ""]
    /\ before = [r \in Runs |-> <<>>]
    /\ reads = [r \in Runs |-> <<>>]
    /\ writes = [r \in Runs |-> <<>>]
    /\ searches = [r \in Runs |-> <<>>]
    /\ loads = [r \in Runs |-> 0]
    /\ libMetrics = [r \in Runs |-> NotCalled]
    /\ libParams = [r \in Runs |-> NotCalled]

\* a table an earlier configuration left in the destination
LegacySheet == <<<<h_campaign_id, h_retrieved_at>>, <<<<"9">>, <<"t","0">>>>>>
\* a destination prepared with a header row and no data
HeaderSheet == <<<<h_campaign_id, h_campaign_name, h_status, h_campaign_type,
                  <<"a">>, <<"b">>, <<"c">>, <<"d">>>>>>
InitSheets == {<<>>, HeaderSheet, LegacySheet}

Init ==
    /\ cfgsheet \in PipelineSheets
    /\ sheet \in InitSheets
    /\ InitRun

InitConfig ==
    /\ cfgsheet \in ConfigSheets
    /\ sheet = <<>>
    /\ InitRun

\* ---------------------------------------------------------------- actions
Fail(r, exc) ==
    /\ pc' = [pc EXCEPT ![r] = "failed"]
    /\ error' = [error EXCEPT ![r] = exc]

\* main() is started: one process per run.  Runs of this specification are
\* serialized: a run starts when the runs before it have ended.
Serialized(r) == \A q \in Runs : q < r => pc[q] \in Ended
StartRun(r, m) ==
    /\ pc[r] = "idle"
    /\ Serialized(r)
    /\ mode' = [mode EXCEPT ![r] = m]
    /\ pc' = [pc EXCEPT ![r] = "config"]
    /\ before' = [before EXCEPT ![r] = sheet]
    /\ UNCHANGED <<cfgsheet, sheet, cache, fields, calcs, period, limit, records, frame,
                   existing, error, reads, writes, searches, loads, libMetrics, libParams>>

\* get_metrics_config(), first call of the process: the sheet is read and the
\* frame cached; a failed read, a frame that cannot be built and iloc[0] of a
\* frame without rows raise, and the except clause re-raises.
\* a load that accepts a frame without rows
LoadResult_AllowEmpty(values) == ReadAsDataframe(values)
LoadResult(values) ==
    LET f == ReadAsDataframe(values)
    IN IF f.exc # "" THEN f
       ELSE IF Len(f.df.data) = 0 THEN [exc |-> "IndexError", df |-> EmptyDF]
       ELSE f
GetMetricsConfig(r) ==
    /\ pc[r] = "config"
    /\ ~cache[r].set
    /\ loads' = [loads EXCEPT ![r] = @ + 1]
    /\ \/ /\ Fail(r, "HttpError")
          /\ UNCHANGED cache
       \/ LET f == LoadResult(ReadRange(cfgsheet))
          IN IF f.exc # ""
             THEN Fail(r, f.exc) /\ UNCHANGED cache
             ELSE /\ cache' = [cache EXCEPT ![r] = [set |-> TRUE, df |-> f.df]]
                  /\ pc' = [pc EXCEPT ![r] = IF mode[r] = "query" THEN "query" ELSE "fields"]
                  /\ UNCHANGED error
    /\ UNCHANGED <<cfgsheet, sheet, mode, fields, calcs, period, limit, records, frame,
                   existing, before, reads, writes, searches, libMetrics, libParams>>

\* active_metrics_list = MetricsConfigUtils.get_active_metrics_list()
CallGetActiveMetricsList(r) ==
    /\ pc[r] = "fields"
    /\ LET v == GetActiveMetricsList(cache[r].df)
       IN IF v.exc # ""
          THEN Fail(r, v.exc) /\ UNCHANGED fields
          ELSE /\ fields' = [fields EXCEPT ![r] = v.val]
               /\ pc' = [pc EXCEPT ![r] = "calc"]
               /\ UNCHANGED error
    /\ UNCHANGED <<cfgsheet, sheet, mode, cache, calcs, period, limit, records, frame,
                   existing, before, reads, writes, searches, loads, libMetrics, libParams>>

\* calculated_metrics = MetricsConfigUtils.get_calculated_metrics()
CallGetCalculatedMetrics(r) ==
    /\ pc[r] = "calc"
    /\ LET v == GetCalculatedMetrics(cache[r].df)
       IN IF v.exc # ""
          THEN Fail(r, v.exc) /\ UNCHANGED calcs
          ELSE /\ calcs' = [calcs EXCEPT ![r] = v.val]
               /\ pc' = [pc EXCEPT ![r] = IF mode[r] = "test" THEN "dummy" ELSE "period"]
               /\ UNCHANGED error
    /\ UNCHANGED <<cfgsheet, sheet, mode, cache, fields, period, limit, records, frame,
                   existing, before, reads, writes, searches, loads, libMetrics, libParams>>

\* days_ago = int(MetricsConfigUtils.get_period_days())
CallGetPeriodDays(r) ==
    /\ pc[r] = "period"
    /\ LET v == GetPeriodDays(cache[r].df)
       IN IF v.exc # ""
          THEN Fail(r, v.exc) /\ UNCHANGED period
          ELSE /\ period' = [period EXCEPT ![r] = v.val]
               /\ pc' = [pc EXCEPT ![r] = "limit"]
               /\ UNCHANGED error
    /\ UNCHANGED <<cfgsheet, sheet, mode, cache, fields, calcs, limit, records, frame,
                   existing, before, reads, writes, searches, loads, libMetrics, libParams>>

\* a get_limit() that reads the configuration sheet again
CallGetLimit_Reload(r) ==
    /\ pc[r] = "limit"
    /\ LET v == GetLimit(ReadAsDataframe(ReadRange(cfgsheet)).df)
       IN IF v.exc # ""
          THEN Fail(r, v.exc) /\ UNCHANGED limit
          ELSE /\ limit' = [limit EXCEPT ![r] = v.val]
               /\ pc' = [pc EXCEPT ![r] = "search"]
               /\ UNCHANGED error
    /\ UNCHANGED <<cfgsheet, sheet, mode, cache, fields, calcs, period, records, frame,
                   existing, before, reads, writes, searches, loads, libMetrics, libParams>>

\* limit = int(MetricsConfigUtils.get_limit())
CallGetLimit(r) ==
    /\ pc[r] = "limit"
    /\ LET v == GetLimit(cache[r].df)
       IN IF v.exc # ""
          THEN Fail(r, v.exc) /\ UNCHANGED limit
          ELSE /\ limit' = [limit EXCEPT ![r] = v.val]
               /\ pc' = [pc EXCEPT ![r] = "search"]
               /\ UNCHANGED error
    /\ UNCHANGED <<cfgsheet, sheet, mode, cache, fields, calcs, period, records, frame,
                   existing, before, reads, writes, searches, loads, libMetrics, libParams>>

\* build_query() in a process that uses the library (mode "query"), after the
\* load of its first get_metrics_config(): get_active_metrics(), then
\* get_query_parameters()
BuildQuery(r) ==
    /\ pc[r] = "query"
    /\ pc' = [pc EXCEPT ![r] = IF GetActiveMetrics(cache[r].df).exc # "" \/
                                  GetQueryParameters(cache[r].df).exc # ""
                               THEN "failed" ELSE "done"]
    /\ libMetrics' = [libMetrics EXCEPT ![r] = GetActiveMetrics(cache[r].df)]
    /\ libParams' = [libParams EXCEPT ![r] =
                        IF GetActiveMetrics(cache[r].df).exc # "" THEN NotCalled
                        ELSE GetQueryParameters(cache[r].df)]
    /\ UNCHANGED <<cfgsheet, sheet, mode, cache, fields, calcs, period, limit, records,
                   frame, existing, error, before, reads, writes, searches, loads>>

\* get_field_mapping: the query field of a metric, the metric itself when the
\* mapping has no entry for it
MappedMetrics == {k_impressions, k_clicks, k_cost_micros, k_conversions}
GetFieldMapping(metric) ==
    IF metric \in MappedMetrics THEN <<"m","e","t","r","i","c","s",".">> \o metric ELSE metric

\* the status filter of the query that get_campaign_metrics() submits
ReportStatusFilter == s_ENABLED

\* the query get_campaign_metrics() builds: what it selects, its WHERE clause
\* (status, whether impressions > 0 is asked for, the first and the last day of
\* the window as days before today), its ORDER BY clause and its LIMIT
ReportQuery(r) ==
    [dimensions |-> <<"campaign.id", "campaign.name", "campaign.status",
                      "campaign.advertising_channel_type">>,
     metrics |-> [j \in 1..Len(fields[r]) |-> GetFieldMapping(fields[r][j])],
     status |-> ReportStatusFilter,
     impressions_guard |-> FALSE,
     from |-> period[r],
     to |-> 0,
     order_by |-> <<>>,
     limit |-> limit[r]]

\* the rest of get_campaign_metrics(): one search on the Ads Query Service.  A
\* failure is caught and None returned; main() returns on None and on [].
\* The service returns at most LIMIT rows and rejects a LIMIT that is not positive.
\* a failed search after which the run goes on to persist
SearchFails_Continue(r) ==
    /\ searches' = [searches EXCEPT ![r] =
                       Append(@, [ok |-> FALSE, n |-> 0, query |-> ReportQuery(r),
                                  rows |-> <<>>])]
    /\ pc' = [pc EXCEPT ![r] = "read"]
    /\ UNCHANGED records
SearchFails(r) ==
    /\ searches' = [searches EXCEPT ![r] =
                       Append(@, [ok |-> FALSE, n |-> 0, query |-> ReportQuery(r),
                                  rows |-> <<>>])]
    /\ pc' = [pc EXCEPT ![r] = "stopped"]
    /\ UNCHANGED records
SearchReturns(r, rows) ==
    /\ limit[r] > 0
    /\ Len(rows) <= limit[r]
    /\ searches' = [searches EXCEPT ![r] =
                       Append(@, [ok |-> TRUE, n |-> Len(rows), query |-> ReportQuery(r),
                                  rows |-> rows])]
    /\ records' = [records EXCEPT ![r] =
                      ShapeResponse(rows, cache[r].df, fields[r], calcs[r])]
    /\ pc' = [pc EXCEPT ![r] = IF rows = <<>> THEN "stopped" ELSE "frame"]
Search(r) ==
    /\ pc[r] = "search"
    /\ \/ SearchFails(r)
       \/ \E n \in 0..MaxResp : SearchReturns(r, [i \in 1..n |-> SampleRow(i)])
    /\ UNCHANGED <<cfgsheet, sheet, mode, cache, fields, calcs, period, limit, frame,
                   existing, error, before, reads, writes, loads, libMetrics, libParams>>

\* the same search, the response any rows of the raw values below
RawClicks == {0, 4}
RawCosts == {0, 5000000}
RawConversions == {0, 10}
RawRows ==
    {[m \in KnownMetrics |-> IF m = k_clicks THEN Num(b)
                             ELSE IF m = k_cost_micros THEN Num(c)
                             ELSE IF m = k_conversions THEN Num(d)
                             ELSE Num(100)] :
        b \in RawClicks, c \in RawCosts, d \in RawConversions}
RawResponses == UNION {[1..n -> RawRows] : n \in 0..MaxResp}
SearchAny(r) ==
    /\ pc[r] = "search"
    /\ \/ SearchFails(r)
       \/ \E rows \in RawResponses : SearchReturns(r, rows)
    /\ UNCHANGED <<cfgsheet, sheet, mode, cache, fields, calcs, period, limit, frame,
                   existing, error, before, reads, writes, loads, libMetrics, libParams>>

\* the rest of get_dummy_campaign_metrics()
Dummy(r) ==
    /\ pc[r] = "dummy"
    /\ records' = [records EXCEPT ![r] =
                      GetDummyCampaignMetrics(cache[r].df, fields[r], calcs[r])]
    /\ pc' = [pc EXCEPT ![r] = "frame"]
    /\ UNCHANGED <<cfgsheet, sheet, mode, cache, fields, calcs, period, limit, frame,
                   existing, error, before, reads, writes, searches, loads,
                   libMetrics, libParams>>

\* step 2 of main(): df = pd.DataFrame(campaign_metrics) and the retrieval time
Now(r) == <<"t">> \o StrOf(r)
BuildFrame(r) ==
    /\ pc[r] = "frame"
    /\ frame' = [frame EXCEPT ![r] = RecordsFrame(records[r], Now(r))]
    /\ pc' = [pc EXCEPT ![r] = "read"]
    /\ UNCHANGED <<cfgsheet, sheet, mode, cache, fields, calcs, period, limit, records,
                   existing, error, before, reads, writes, searches, loads,
                   libMetrics, libParams>>

\* step 3 of main(), the read: existing_df = read_as_dataframe(...).  Whatever it
\* raises is caught by the except clause of the persist step.
ReadExisting(r) ==
    /\ pc[r] = "read"
    /\ \/ /\ reads' = [reads EXCEPT ![r] = Append(@, [exc |-> "HttpError", values |-> <<>>])]
          /\ pc' = [pc EXCEPT ![r] = "fallback"]
          /\ UNCHANGED existing
       \/ LET f == ReadAsDataframe(ReadRange(sheet))
          IN /\ reads' = [reads EXCEPT ![r] =
                             Append(@, [exc |-> f.exc, values |-> ReadRange(sheet)])]
             /\ existing' = [existing EXCEPT ![r] = f.df]
             /\ pc' = [pc EXCEPT ![r] = IF f.exc # "" THEN "fallback"
                                        ELSE IF ~DfEmpty(f.df) THEN "write_combined"
                                        ELSE "write_new"]
    /\ UNCHANGED <<cfgsheet, sheet, mode, cache, fields, calcs, period, limit, records,
                   frame, error, before, writes, searches, loads, libMetrics, libParams>>

\* one write_dataframe(df) of the persist step: the write succeeds and the run
\* goes to `good`, or it raises and the run goes to `bad`
WriteStep(r, kind, df, good, bad) ==
    \/ /\ sheet' = WriteRange(sheet, FrameValues(df))
       /\ writes' = [writes EXCEPT ![r] =
                        Append(@, [kind |-> kind, values |-> FrameValues(df), ok |-> TRUE])]
       /\ pc' = [pc EXCEPT ![r] = good]
    \/ /\ writes' = [writes EXCEPT ![r] =
                        Append(@, [kind |-> kind, values |-> FrameValues(df), ok |-> FALSE])]
       /\ pc' = [pc EXCEPT ![r] = bad]
       /\ UNCHANGED sheet

\* the branch `if not existing_df.empty`: concat and write of the combined frame,
\* inside the try block of the persist step
WriteCombined(r) ==
    /\ pc[r] = "write_combined"
    /\ LET c == Concat(existing[r], frame[r])
       IN IF c.exc # ""
          THEN /\ pc' = [pc EXCEPT ![r] = "fallback"]
               /\ UNCHANGED <<sheet, writes>>
          ELSE WriteStep(r, "combined", c.df, "done", "fallback")
    /\ UNCHANGED <<cfgsheet, mode, cache, fields, calcs, period, limit, records, frame,
                   existing, error, before, reads, searches, loads, libMetrics, libParams>>

\* the else branch: write of the new frame alone, inside the try block
WriteNew(r) ==
    /\ pc[r] = "write_new"
    /\ WriteStep(r, "new", frame[r], "done", "fallback")
    /\ UNCHANGED <<cfgsheet, mode, cache, fields, calcs, period, limit, records, frame,
                   existing, error, before, reads, searches, loads, libMetrics, libParams>>

\* an except clause that escalates instead of writing
WriteFallback_Escalate(r) ==
    /\ pc[r] = "fallback"
    /\ pc' = [pc EXCEPT ![r] = "failed"]
    /\ error' = [error EXCEPT ![r] = "HttpError"]
    /\ UNCHANGED <<cfgsheet, sheet, mode, cache, fields, calcs, period, limit, records,
                   frame, existing, before, reads, writes, searches, loads,
                   libMetrics, libParams>>

\* the except clause of the persist step: write of the new frame alone; what it
\* raises reaches the except clause of main(), which exits with status 1
WriteFallback(r) ==
    /\ pc[r] = "fallback"
    /\ WriteStep(r, "fallback", frame[r], "done", "failed")
    /\ error' = [error EXCEPT ![r] = IF pc'[r] = "failed" THEN "HttpError" ELSE @]
    /\ UNCHANGED <<cfgsheet, mode, cache, fields, calcs, period, limit, records, frame,
                   existing, before, reads, searches, loads, libMetrics, libParams>>

\* the exit status of the process of an ended run
ExitStatus(r) == IF pc[r] = "failed" THEN 1 ELSE 0

Next ==
    \E r \in Runs :
        \/ \E m \in {"test", "live"} : StartRun(r, m)
        \/ GetMetricsConfig(r)
        \/ CallGetActiveMetricsList(r)
        \/ CallGetCalculatedMetrics(r)
        \/ CallGetPeriodDays(r)
        \/ CallGetLimit(r)
        \/ Search(r)
        \/ Dummy(r)
        \/ BuildFrame(r)
        \/ ReadExisting(r)
        \/ WriteCombined(r)
        \/ WriteNew(r)
        \/ WriteFallback(r)

Spec == Init /\ [][Next]_vars

\* Two processes of main() started without waiting for each other: nothing in
\* main() takes a lock on the destination or looks for another process, so
\* their steps interleave in every order.
Overlapping == {1, 2}
StartOverlapped(r, m) ==
    /\ pc[r] = "idle"
    /\ mode' = [mode EXCEPT ![r] = m]
    /\ pc' = [pc EXCEPT ![r] = "config"]
    /\ before' = [before EXCEPT ![r] = sheet]
    /\ UNCHANGED <<cfgsheet, sheet, cache, fields, calcs, period, limit, records, frame,
                   existing, error, reads, writes, searches, loads, libMetrics, libParams>>

NextOverlap ==
    \E r \in Overlapping :
        \/ \E m \in {"test", "live"} : StartOverlapped(r, m)
        \/ GetMetricsConfig(r)
        \/ CallGetActiveMetricsList(r)
        \/ CallGetCalculatedMetrics(r)
        \/ CallGetPeriodDays(r)
        \/ CallGetLimit(r)
        \/ Search(r)
        \/ Dummy(r)
        \/ BuildFrame(r)
        \/ ReadExisting(r)
        \/ WriteCombined(r)
        \/ WriteNew(r)
        \/ WriteFallback(r)

SpecOverlap == Init /\ [][NextOverlap]_vars

\* The resolvers on every configuration sheet: one process, which runs the
\* resolvers of the report flow or calls build_query().
NextConfig ==
    \/ StartRun(1, "live")
    \/ StartRun(1, "query")
    \/ GetMetricsConfig(1)
    \/ BuildQuery(1)
    \/ CallGetActiveMetricsList(1)
    \/ CallGetCalculatedMetrics(1)
    \/ CallGetPeriodDays(1)
    \/ CallGetLimit(1)

SpecConfig == InitConfig /\ [][NextConfig]_vars

\* record shaping: the configurations with a cost metric and a formula over it,
\* with conversion_rate over collected and over uncollected clicks, and with
\* impressions alone; each has a row with a parameter cell
ShapeTables ==
    {<<Definition(k_cost_micros, s_TRUE, E, E),
       Definition(k_clicks, s_TRUE, E, E),
       Definition(k_cpc, s_TRUE, f_cpc, E),
       Definition(k_limit, s_TRUE, E, s_7)>>,
     <<Definition(k_conversions, s_TRUE, E, E),
       Definition(k_clicks, s_TRUE, E, E),
       Definition(k_conversion_rate, s_TRUE, f_cvr, E),
       Definition(k_limit, s_TRUE, E, s_7)>>,
     <<Definition(k_conversions, s_TRUE, E, E),
       Definition(k_conversion_rate, s_TRUE, f_cvr, E),
       Definition(k_limit, s_TRUE, E, s_7)>>,
     <<Definition(k_impressions, s_TRUE, E, E),
       Definition(k_limit, s_TRUE, E, s_7)>>}
ShapeSheets == {SheetOf(FullHeader, t) : t \in ShapeTables}
InitShape ==
    /\ cfgsheet \in ShapeSheets
    /\ sheet = <<>>
    /\ InitRun
NextShape ==
    \E r \in Runs :
        \/ \E m \in {"test", "live"} : StartRun(r, m)
        \/ GetMetricsConfig(r)
        \/ CallGetActiveMetricsList(r)
        \/ CallGetCalculatedMetrics(r)
        \/ CallGetPeriodDays(r)
        \/ CallGetLimit(r)
        \/ SearchAny(r)
        \/ Dummy(r)
SpecShape == InitShape /\ [][NextShape]_vars

\* The configuration sheet is edited in the Tabular Store while processes run.
CacheSheets ==
    PipelineSheets \cup
    {<<>>, SheetOf(FullHeader, <<Definition(k_clicks, s_TRUE, E, E),
                                 Definition(k_conversion_rate, s_FALSE, f_ratio, E),
                                 Definition(k_limit, s_TRUE, E, s_0)>>)}
InitCache ==
    /\ cfgsheet \in CacheSheets
    /\ sheet = <<>>
    /\ InitRun
EditConfig ==
    /\ cfgsheet' \in CacheSheets \ {cfgsheet}
    /\ UNCHANGED <<sheet, pc, mode, cache, fields, calcs, period, limit, records, frame,
                   existing, error, before, reads, writes, searches, loads,
                   libMetrics, libParams>>

\* the prologue of get_campaign_metrics() on a configuration sheet that changes
NextCache ==
    \/ EditConfig
    \/ \E r \in Runs :
          \/ StartRun(r, "live")
          \/ GetMetricsConfig(r)
          \/ CallGetActiveMetricsList(r)
          \/ CallGetCalculatedMetrics(r)
          \/ CallGetPeriodDays(r)
          \/ CallGetLimit(r)

SpecCache == InitCache /\ [][NextCache]_vars

\* ------------------------------------------------------------ properties
\* where a run is once a step of its prologue has returned
AfterFields == {"calc", "dummy", "period", "limit", "search", "frame", "read",
                "write_combined", "write_new", "fallback", "done", "stopped"}
FieldsDone(r) == mode[r] # "query" /\ pc[r] \in AfterFields
CalcsDone(r) == FieldsDone(r) /\ pc[r] # "calc"
PeriodDone(r) == mode[r] = "live" /\ CalcsDone(r) /\ pc[r] # "period"
LimitDone(r) == PeriodDone(r) /\ pc[r] # "limit"
QueryDone(r) == mode[r] = "query" /\ pc[r] \in {"done", "failed"}

\* the definition rows of the configuration run r has loaded, by column
Defs(r) == cache[r].df.data
KeyAt(r, i) == Defs(r)[i][ColIndex(cache[r].df.columns, c_metrics)]
ActiveAt(r, i) == Defs(r)[i][ColIndex(cache[r].df.columns, c_active)]
CalcAt(r, i) == Defs(r)[i][ColIndex(cache[r].df.columns, c_calc)]
ParameterAt(r, i) == Defs(r)[i][ColIndex(cache[r].df.columns, c_parameter)]
HasFormulaAt(r, i) == CalcAt(r, i) # None /\ CalcAt(r, i) # E
RowsOfKey(r, key) == {i \in 1..Len(Defs(r)) : KeyAt(r, i) = key}
RowOfKey(r, key) == CHOOSE i \in RowsOfKey(r, key) : TRUE

\* C6 (resolver correctness): once a run has resolved its requested fields and
\* its derived metrics, no requested field is a key whose formula is non-empty,
\* every derived metric is a key whose formula is non-empty, and no key is both.
C6_ResolverCorrectness ==
    \A r \in Runs : CalcsDone(r) =>
        /\ \A j \in 1..Len(fields[r]) :
              \A i \in RowsOfKey(r, fields[r][j]) : ~HasFormulaAt(r, i)
        /\ \A j \in 1..Len(calcs[r]) :
              /\ RowsOfKey(r, calcs[r][j].key) # {}
              /\ \A i \in RowsOfKey(r, calcs[r][j].key) : HasFormulaAt(r, i)
        /\ KeysOf(fields[r]) \cap KeysOf(DictKeys(calcs[r])) = {}
C6_Witness ==
    \E r \in Runs : CalcsDone(r) /\ fields[r] # <<>> /\ calcs[r] # <<>>

C8_ReservedKeysHaveNoRole ==
    \A r \in Runs : CalcsDone(r) =>
        \A k \in {k_campaign_status, k_period_days, k_limit} :
            ~IsIn(k, fields[r]) /\ ~DictHas(calcs[r], k)

\* the integer of the parameter cell of `key` when its row is present and the
\* cell parses as an integer, else the default
ParameterOrDefault(r, key, default) ==
    IF RowsOfKey(r, key) = {} THEN default
    ELSE IF IntOf(ParameterAt(r, RowOfKey(r, key))).exc # "" THEN default
    ELSE IntOf(ParameterAt(r, RowOfKey(r, key))).val

\* C9 (parameter fallback never raises): resolving the window and the limit
\* never raises, and yields the integer of the parameter cell when the row is
\* present and the cell parses, else the default (30, 100).
C9_ParameterFallback ==
    \A r \in Runs :
        /\ (pc[r] = "failed" => error[r] # "TypeError")
        /\ (QueryDone(r) /\ libParams[r] # NotCalled => libParams[r].exc = "")
        /\ (PeriodDone(r) => period[r] = ParameterOrDefault(r, k_period_days, 30))
        /\ (LimitDone(r) => limit[r] = ParameterOrDefault(r, k_limit, 100))

\* C10 (reserved parameters ignore the active flag): when the row of a reserved
\* key is present with a value, each resolver of that parameter yields the
\* row's value, whatever the row's active cell.
C10_ReservedIgnoreActive ==
    \A r \in Runs :
        LET IntRow(key) == RowsOfKey(r, key) # {} /\
                           IntOf(ParameterAt(r, RowOfKey(r, key))).exc = ""
            IntValue(key) == IntOf(ParameterAt(r, RowOfKey(r, key))).val
            StatusRow == RowsOfKey(r, k_campaign_status) # {} /\
                         ParameterAt(r, RowOfKey(r, k_campaign_status)) \notin {None, E}
            StatusValue == ParameterAt(r, RowOfKey(r, k_campaign_status))
        IN /\ (PeriodDone(r) /\ IntRow(k_period_days) => period[r] = IntValue(k_period_days))
           /\ (LimitDone(r) /\ IntRow(k_limit) => limit[r] = IntValue(k_limit))
           /\ (LimitDone(r) /\ StatusRow => ReportStatusFilter = StatusValue)
           /\ (QueryDone(r) /\ libParams[r] # NotCalled /\ libParams[r].exc = "" =>
                  /\ (IntRow(k_period_days) => libParams[r].period_days = IntValue(k_period_days))
                  /\ (IntRow(k_limit) => libParams[r].limit = IntValue(k_limit))
                  /\ (StatusRow => libParams[r].campaign_status = StatusValue))

\* ------------------------------------------------ properties of persist
DataRows(g) == IF g = <<>> THEN <<>> ELSE Tail(g)
LastOf(q) == q[Len(q)]
\* run r has read the destination without a fault and has not written yet
ReadOk(r) ==
    /\ pc[r] \notin Ended
    /\ reads[r] # <<>>
    /\ LastOf(reads[r]).exc = ""
    /\ writes[r] = <<>>
\* row carries, under the labels of header, the cells of record
CarriesRecord(header, row, record) ==
    \A k \in KeysOf(DictKeys(record)) :
        ColIndex(header, k) # 0 /\ row[ColIndex(header, k)] = DictGet(record, k)
\* what the Tabular Store holds of a row the body of a write carries
Stored(row) == TrimRow(UpdateRow(<<>>, row))

\* C1 (merge append order): when the read of the destination succeeded with
\* M >= 1 data rows, the next step of the persist step is one write whose body
\* is a header that starts with the prior header, then M rows that leave the
\* prior rows as they are, then the N new records in their generated order;
\* when the write succeeds the destination holds the M prior rows, unchanged
\* and in order, then the N new rows, and the run is done.
C1_MergeAppendOrder ==
    [][\A r \in Runs :
          (ReadOk(r) /\ Len(LastOf(reads[r]).values) >= 2 /\
           (writes'[r] # writes[r] \/ pc'[r] # pc[r])) =>
              LET prior == LastOf(reads[r]).values
                  M == Len(prior) - 1
                  N == Len(records[r])
              IN /\ Len(writes'[r]) = 1
                 /\ LET w == writes'[r][1]
                    IN /\ Len(w.values) = 1 + M + N
                       /\ SubSeq(w.values[1], 1, Len(prior[1])) = prior[1]
                       /\ \A i \in 1..M :
                             TrimRow(UpdateRow(sheet[1 + i], w.values[1 + i])) = sheet[1 + i]
                       /\ \A k \in 1..N :
                             CarriesRecord(w.values[1], w.values[1 + M + k], records[r][k])
                       /\ w.ok =>
                             /\ Len(sheet') = 1 + M + N
                             /\ \A i \in 1..M : sheet'[1 + i] = sheet[1 + i]
                             /\ \A k \in 1..N :
                                   sheet'[1 + M + k] = Stored(w.values[1 + M + k])
                             /\ pc'[r] = "done"]_vars
C1_Witness ==
    \E r \in Runs :
        /\ pc[r] = "done"
        /\ Len(reads[r]) = 1 /\ reads[r][1].exc = "" /\ Len(reads[r][1].values) >= 2
        /\ Len(writes[r]) = 1 /\ writes[r][1].ok
        /\ Len(writes[r][1].values) = Len(reads[r][1].values) + Len(records[r])

\* C2 (merge on empty destination): when the read of the destination succeeded
\* with no data rows (no cells, or a header only), the next step of the persist
\* step is one write whose body is one header row, then the N new records, in
\* content and order the new records; when the write succeeds on a destination
\* with no cells, the destination holds exactly that table.
C2_MergeOnEmpty ==
    [][\A r \in Runs :
          (ReadOk(r) /\ Len(LastOf(reads[r]).values) <= 1 /\
           (writes'[r] # writes[r] \/ pc'[r] # pc[r])) =>
              LET N == Len(records[r])
              IN /\ Len(writes'[r]) = 1
                 /\ LET w == writes'[r][1]
                    IN /\ Len(w.values) = 1 + N
                       /\ w.values[1] = frame[r].columns
                       /\ \A k \in 1..N :
                             /\ Len(w.values[1 + k]) = Len(w.values[1])
                             /\ CarriesRecord(w.values[1], w.values[1 + k], records[r][k])
                             /\ w.values[1 + k][ColIndex(w.values[1], h_retrieved_at)] = Now(r)
                       /\ (w.ok /\ sheet = <<>>) =>
                             sheet' = [i \in 1..(1 + N) |-> Stored(w.values[i])]
                       /\ w.ok => pc'[r] = "done"]_vars
C2_Witness ==
    \E r \in Runs :
        /\ pc[r] = "done"
        /\ Len(reads[r]) = 1 /\ reads[r][1].exc = "" /\ Len(reads[r][1].values) <= 1
        /\ Len(writes[r]) = 1 /\ writes[r][1].ok
        /\ Len(writes[r][1].values) = 1 + Len(records[r])

\* C3 (read fault is swallowed): a run whose read of the existing table raised
\* is not ended by it: it goes on to one write of the new records alone (header
\* and rows), and is done, with no error, when that write succeeds.
C3_ReadFaultSwallowed ==
    \A r \in Runs :
        (reads[r] # <<>> /\ reads[r][1].exc # "") =>
            /\ writes[r] = <<>> => pc[r] = "fallback"
            /\ writes[r] # <<>> =>
                  /\ Len(writes[r]) = 1
                  /\ writes[r][1].values = <<frame[r].columns>> \o frame[r].data
                  /\ Len(writes[r][1].values) = 1 + Len(records[r])
                  /\ writes[r][1].ok => (pc[r] = "done" /\ error[r] = "")
C3_Witness ==
    \E r \in Runs :
        /\ reads[r] # <<>> /\ reads[r][1].exc # ""
        /\ writes[r] # <<>> /\ writes[r][1].ok
        /\ pc[r] = "done"

\* C4 (write fault is fatal): a run one of whose writes of the destination
\* failed is failed (exit status 1) once the persist step is over, and is never
\* done.
C4_WriteFaultFatal ==
    \A r \in Runs :
        (\E i \in 1..Len(writes[r]) : ~writes[r][i].ok) =>
            /\ pc[r] # "done"
            /\ pc[r] \in Ended => (pc[r] = "failed" /\ ExitStatus(r) = 1)

\* C5 (append-only persisted table): every step leaves the data rows the
\* destination holds where they are, in their order, and only adds rows after
\* them.
C5_AppendOnly ==
    [][/\ Len(DataRows(sheet')) >= Len(DataRows(sheet))
       /\ \A i \in 1..Len(DataRows(sheet)) : DataRows(sheet')[i] = DataRows(sheet)[i]]_vars

\* C5, amended: a write that is not the fresh write of the except clause of the
\* persist step, or that fails, leaves the data rows the destination holds
\* where they are and only adds rows after them; a fresh write of N records
\* that succeeds overwrites, cell by cell, the first N data rows with its
\* records and leaves the data rows after them as they are.
C5_AppendUnlessFreshWrite ==
    [][\A r \in Runs :
          writes'[r] # writes[r] =>
              LET w == LastOf(writes'[r])
                  prior == DataRows(sheet)
                  post == DataRows(sheet')
                  N == Len(w.values) - 1
              IN IF w.kind = "fallback" /\ w.ok
                 THEN /\ \A i \in 1..Len(prior) :
                            i > N => (i <= Len(post) /\ post[i] = prior[i])
                      /\ \A i \in 1..N :
                            post[i] = TrimRow(UpdateRow(IF i <= Len(prior) THEN prior[i]
                                                        ELSE <<>>, w.values[1 + i]))
                 ELSE /\ Len(post) >= Len(prior)
                      /\ \A i \in 1..Len(prior) : post[i] = prior[i]]_vars
C5_Witness ==
    \E r \in Runs :
        /\ pc[r] = "done"
        /\ Len(before[r]) >= 2
        /\ LastOf(writes[r]).kind = "fallback" /\ LastOf(writes[r]).ok
        /\ Len(sheet) >= 2 /\ sheet[2] # before[r][2]

\* C11 (positive query parameters): the window and the limit a run has
\* resolved for its query are integers greater than 0.
C11_PositiveParameters ==
    \A r \in Runs :
        /\ PeriodDone(r) => period[r] > 0
        /\ LimitDone(r) => limit[r] > 0

\* C12 (tolerant boolean parsing): at each place that evaluates the active
\* flag, a definition counts as active exactly when its active cell is the
\* text "true" in any letter case: a key that is no reserved key is a requested
\* field (when it has no formula), a derived metric (when it has one) and a
\* metric of build_query exactly when its cell is such a text.
C12_TolerantBoolean ==
    \A r \in Runs :
        \A i \in 1..Len(Defs(r)) :
            LET tolerant == ActiveAt(r, i) # None /\ Lower(ActiveAt(r, i)) = s_true
                plain == KeyAt(r, i) \notin {k_campaign_status, k_period_days, k_limit}
            IN /\ (FieldsDone(r) /\ plain /\ ~HasFormulaAt(r, i)) =>
                      (IsIn(KeyAt(r, i), fields[r]) <=> tolerant)
               /\ (CalcsDone(r) /\ plain /\ HasFormulaAt(r, i)) =>
                      (DictHas(calcs[r], KeyAt(r, i)) <=> tolerant)
               /\ (QueryDone(r) /\ plain /\ libMetrics[r].exc = "") =>
                      (IsIn(KeyAt(r, i), libMetrics[r].val) <=> tolerant)

\* C13 (the configuration cache is single-writer): every step leaves a cache
\* that is set as it is; a process reads the configuration sheet at most once,
\* and the frame it caches is the frame of the sheet at that read; what later
\* calls resolve is resolved from that frame, whatever the sheet holds by then;
\* a load that fails ends the run with its exception and sets no cache.
C13_CacheSingleWriter ==
    [][\A r \in Runs :
          /\ cache[r].set => cache'[r] = cache[r]
          /\ (~cache[r].set /\ cache'[r].set) =>
                cache'[r].df = ReadAsDataframe(ReadRange(cfgsheet)).df
          /\ loads'[r] <= 1
          /\ (loads'[r] = 1 /\ ~cache'[r].set) => (pc'[r] = "failed" /\ error'[r] # "")
          /\ (FieldsDone(r))' => fields'[r] = GetActiveMetricsList(cache'[r].df).val
          /\ (CalcsDone(r))' => calcs'[r] = GetCalculatedMetrics(cache'[r].df).val
          /\ (PeriodDone(r))' => period'[r] = GetPeriodDays(cache'[r].df).val
          /\ (LimitDone(r))' => limit'[r] = GetLimit(cache'[r].df).val]_vars
C13_Witness ==
    \E r \in Runs :
        /\ LimitDone(r)
        /\ loads[r] = 1
        /\ ReadAsDataframe(ReadRange(cfgsheet)).df # cache[r].df
        /\ GetLimit(ReadAsDataframe(ReadRange(cfgsheet)).df).val # limit[r]

\* the status filter the configuration of run r gives: the parameter cell of
\* the campaign_status row, ENABLED when there is none
ResolvedStatus(r) ==
    IF RowsOfKey(r, k_campaign_status) = {} THEN s_ENABLED
    ELSE IF ParameterAt(r, RowOfKey(r, k_campaign_status)) \in {None, E} THEN s_ENABLED
    ELSE ParameterAt(r, RowOfKey(r, k_campaign_status))

\* C14 (query shape): every query a run submits selects the four fixed
\* dimensions and exactly the requested fields, filters on the resolved status
\* and on impressions > 0, has the window from window_days before today to
\* today, is ordered by impressions descending and limited to row_limit.
C14_QueryShape ==
    \A r \in Runs : \A k \in 1..Len(searches[r]) :
        LET q == searches[r][k].query
        IN /\ q.dimensions = <<"campaign.id", "campaign.name", "campaign.status",
                               "campaign.advertising_channel_type">>
           /\ q.metrics = [j \in 1..Len(fields[r]) |->
                              <<"m","e","t","r","i","c","s",".">> \o fields[r][j]]
           /\ q.status = ResolvedStatus(r)
           /\ q.impressions_guard
           /\ q.from = period[r] /\ q.to = 0
           /\ q.order_by = <<[field |-> <<"m","e","t","r","i","c","s",".">> \o k_impressions,
                              descending |-> TRUE]>>
           /\ q.limit = limit[r]

\* ------------------------------------------------ properties of shaping
\* run r has shaped the rows of a response into its records
Shaped(r) == mode[r] = "live" /\ searches[r] # <<>> /\ LastOf(searches[r]).ok
RawRowsOf(r) == LastOf(searches[r]).rows
\* the field of record i of run r for the metric or derived metric `key`
FieldAt(r, i, key) == DictGet(records[r][i], DisplayNameOf(cache[r].df, key))
HasFieldAt(r, i, key) == DictHas(records[r][i], DisplayNameOf(cache[r].df, key))

\* C15 (currency conversion): in every record shaped from a raw row, the field
\* of cost_micros is the raw value divided by 1,000,000 (5,000,000 gives 5),
\* the field of every other requested metric is its raw value, and a formula
\* over cost_micros is evaluated on the converted value.
C15_CurrencyConversion ==
    \A r \in Runs : Shaped(r) =>
        /\ Len(records[r]) = Len(RawRowsOf(r))
        /\ \A i \in 1..Len(RawRowsOf(r)) :
              LET raw == RawRowsOf(r)[i]
              IN /\ \A m \in KeysOf(fields[r]) \cap {k_impressions, k_clicks, k_conversions} :
                       FieldAt(r, i, m) = NumText(raw[m])
                 /\ IsIn(k_cost_micros, fields[r]) =>
                       /\ FieldAt(r, i, k_cost_micros) = NumText(Frac(raw[k_cost_micros].n, 1000000))
                       /\ raw[k_cost_micros].n = 5000000 => FieldAt(r, i, k_cost_micros) = <<"5">>
                 /\ (DictHas(calcs[r], k_cpc) /\ raw[k_clicks].n # 0) =>
                       FieldAt(r, i, k_cpc) =
                           NumText(Frac(raw[k_cost_micros].n, 1000000 * raw[k_clicks].n))
C15_Witness ==
    \E r \in Runs :
        /\ Shaped(r) /\ RawRowsOf(r) # <<>>
        /\ RawRowsOf(r)[1][k_cost_micros].n = 5000000
        /\ RawRowsOf(r)[1][k_clicks].n = 4
        /\ HasFieldAt(r, 1, k_cost_micros) /\ FieldAt(r, 1, k_cost_micros) = <<"5">>
        /\ HasFieldAt(r, 1, k_cpc) /\ FieldAt(r, 1, k_cpc) = <<"5", "/", "4">>

\* run r has generated its dummy records
Generated(r) == mode[r] = "test" /\ records[r] # <<>>
\* the value collected on row i of run r for a requested metric
CollectedAt(r, i, m) ==
    IF mode[r] = "test" THEN DummyValue(i, m)
    ELSE IF m = k_cost_micros THEN Frac(RawRowsOf(r)[i][m].n, 1000000)
    ELSE RawRowsOf(r)[i][m]

\* C16 (conversion-rate guard): in every record of a run that has
\* conversion_rate as a derived metric and collects conversions and clicks, the
\* field of conversion_rate is conversions/clicks when clicks > 0 and 0 when
\* clicks = 0 (conversions 10 and clicks 0 give 0); it is never null.
C16_ConversionRateGuard ==
    \A r \in Runs :
        ((Shaped(r) \/ Generated(r)) /\ DictHas(calcs[r], k_conversion_rate)
         /\ IsIn(k_conversions, fields[r]) /\ IsIn(k_clicks, fields[r])) =>
            \A i \in 1..Len(records[r]) :
                LET clicks == CollectedAt(r, i, k_clicks)
                    conversions == CollectedAt(r, i, k_conversions)
                IN /\ HasFieldAt(r, i, k_conversion_rate)
                   /\ FieldAt(r, i, k_conversion_rate) # None
                   /\ clicks.n > 0 =>
                         FieldAt(r, i, k_conversion_rate) =
                             NumText(Frac(conversions.n * clicks.d, conversions.d * clicks.n))
                   /\ clicks.n = 0 => FieldAt(r, i, k_conversion_rate) = <<"0">>
C16_Witness ==
    \E r \in Runs :
        /\ Shaped(r) /\ RawRowsOf(r) # <<>>
        /\ DictHas(calcs[r], k_conversion_rate)
        /\ IsIn(k_conversions, fields[r]) /\ IsIn(k_clicks, fields[r])
        /\ RawRowsOf(r)[1][k_conversions].n = 10
        /\ RawRowsOf(r)[1][k_clicks].n = 0
        /\ FieldAt(r, 1, k_conversion_rate) = <<"0">>

\* C17 (formula faults are absorbed per record): a live run shapes as many
\* records as the response has rows; in every record of a run, a derived field
\* whose formula divides by zero (cost_micros/clicks on 0 clicks) or names a
\* variable that was not collected (conversions/clicks without clicks) is null,
\* while the record keeps its four dimensions, the value of every requested
\* metric and a field for every derived metric.
C17_FormulaFaultsAbsorbed ==
    \A r \in Runs : (Shaped(r) \/ Generated(r)) =>
        /\ Shaped(r) => Len(records[r]) = Len(RawRowsOf(r))
        /\ \A i \in 1..Len(records[r]) :
              /\ \A j \in 1..4 : DictHas(records[r][i], FixedColumns[j])
              /\ \A m \in KeysOf(fields[r]) \cap KnownMetrics :
                    HasFieldAt(r, i, m) /\ FieldAt(r, i, m) = NumText(CollectedAt(r, i, m))
              /\ \A c \in KeysOf(DictKeys(calcs[r])) : HasFieldAt(r, i, c)
              /\ (DictHas(calcs[r], k_cpc) /\ CollectedAt(r, i, k_clicks).n = 0) =>
                    FieldAt(r, i, k_cpc) = None
              /\ (DictHas(calcs[r], k_conversion_rate) /\ ~IsIn(k_clicks, fields[r])) =>
                    FieldAt(r, i, k_conversion_rate) = None
C17_Witness ==
    \E r \in Runs :
        /\ Shaped(r) /\ RawRowsOf(r) # <<>>
        /\ DictHas(calcs[r], k_cpc)
        /\ RawRowsOf(r)[1][k_clicks].n = 0
        /\ RawRowsOf(r)[1][k_cost_micros].n = 5000000
        /\ FieldAt(r, 1, k_cpc) = None
        /\ FieldAt(r, 1, k_cost_micros) = <<"5">>

\* C18 (a query failure stops the run without persisting): a search that
\* fails, or that returns no rows, leaves the run stopped with no exception, and
\* the destination as it was; a stopped run stays stopped and neither reads nor
\* writes the destination.
C18_QueryFailureStops ==
    [][\A r \in Runs :
          /\ (searches'[r] # searches[r] /\
              (~LastOf(searches'[r]).ok \/ LastOf(searches'[r]).n = 0)) =>
                /\ pc'[r] = "stopped" /\ error'[r] = ""
                /\ sheet' = sheet
                /\ reads'[r] = <<>> /\ writes'[r] = <<>>
          /\ pc[r] = "stopped" =>
                /\ pc'[r] = "stopped"
                /\ reads'[r] = <<>> /\ writes'[r] = <<>>]_vars
C18_Witness ==
    \E r \in Runs :
        /\ pc[r] = "stopped"
        /\ ~LastOf(searches[r]).ok
        /\ Len(before[r]) >= 2 /\ sheet = before[r]
        /\ \E q \in Runs : pc[q] = "stopped" /\ LastOf(searches[q]).ok

\* C19 (batch-level faults end the process with a non-zero status): a run that
\* has ended with exit status 0 had no failed search and no failed write.
C19_BatchFaultsExitNonZero ==
    \A r \in Runs :
        (pc[r] \in Ended /\ ExitStatus(r) = 0) =>
            /\ \A k \in 1..Len(searches[r]) : searches[r][k].ok
            /\ \A k \in 1..Len(writes[r]) : writes[r][k].ok

\* C20 (dummy generator value), as stated: with impressions requested, record
\* i of the dummy generator has impressions i*1000 + i*100, and record 3 has 3900.
C20_DummyValue3900 ==
    \A r \in Runs : (Generated(r) /\ IsIn(k_impressions, fields[r])) =>
        /\ \A i \in 1..Len(records[r]) :
              FieldAt(r, i, k_impressions) = StrOf(i * 1000 + i * 100)
        /\ FieldAt(r, 3, k_impressions) = <<"3", "9", "0", "0">>

\* C20, amended: with impressions requested, the dummy generator makes 10
\* records, record i has impressions i*1000 + i*100, and record 3 has 3300.
C20_DummyValue ==
    \A r \in Runs : (Generated(r) /\ IsIn(k_impressions, fields[r])) =>
        /\ Len(records[r]) = 10
        /\ \A i \in 1..Len(records[r]) :
              FieldAt(r, i, k_impressions) = StrOf(i * 1000 + i * 100)
        /\ FieldAt(r, 3, k_impressions) = <<"3", "3", "0", "0">>
C20_Witness ==
    \E r \in Runs :
        /\ Generated(r) /\ IsIn(k_impressions, fields[r])
        /\ FieldAt(r, 3, k_impressions) = <<"3", "3", "0", "0">>
        /\ FieldAt(r, 10, k_impressions) = <<"1", "1", "0", "0", "0">>

\* the indices of the rows of a table that carry the retrieval time of run r
RowsOfRun(r, values) ==
    {i \in 2..Len(values) :
        /\ ColIndex(values[1], h_retrieved_at) # 0
        /\ Len(values[i]) >= ColIndex(values[1], h_retrieved_at)
        /\ values[i][ColIndex(values[1], h_retrieved_at)] = Now(r)}

\* C21 (a dummy-mode run persists exactly 10 records): a run in dummy mode has
\* exactly 10 records, campaigns 1 to 10; every table it writes, whatever the
\* read of the destination gave, ends with those 10 records, in generation
\* order, and holds no other row of the run; it makes a write once it has read.
C21_DummyRunPersistsTen ==
    \A r \in Runs : Generated(r) =>
        /\ Len(records[r]) = 10
        /\ \A i \in 1..Len(records[r]) :
              DictGet(records[r][i], h_campaign_id) = <<"1","0","0","0","0">> \o StrOf(i)
        /\ pc[r] \in {"done", "failed"} => writes[r] # <<>>
        /\ \A k \in 1..Len(writes[r]) :
              LET v == writes[r][k].values
              IN /\ Len(v) >= 11
                 /\ RowsOfRun(r, v) = (Len(v) - 9)..Len(v)
                 /\ \A i \in 1..10 : CarriesRecord(v[1], v[Len(v) - 10 + i], records[r][i])
C21_Witness ==
    \E r \in Runs :
        /\ Generated(r) /\ pc[r] = "done"
        /\ Len(writes[r]) = 1 /\ writes[r][1].kind = "combined"
        /\ Len(writes[r][1].values) > 11
        /\ \E q \in Runs : /\ Generated(q) /\ pc[q] = "done"
                           /\ LastOf(writes[q]).kind = "fallback"

\* ------------------------------------------------ overlapping runs
\* the step is a first write of run r, of the combined or of the new table,
\* that the store accepts
AcceptedFirstWrite(r) ==
    /\ writes[r] = <<>> /\ Len(writes'[r]) = 1
    /\ writes'[r][1].ok /\ writes'[r][1].kind # "fallback"
\* run q read the table run r read, and its first write, of the combined or of
\* the new table, was accepted while r had not written
WroteFirst(q, r) ==
    /\ q # r
    /\ reads[q] # <<>> /\ reads[q][1].exc = ""
    /\ reads[r] # <<>> /\ reads[r][1].exc = ""
    /\ reads[q][1].values = reads[r][1].values
    /\ Len(writes[q]) = 1 /\ writes[q][1].ok /\ writes[q][1].kind # "fallback"
    /\ writes[r] = <<>>
\* no run other than r is between its start and its end
RunsAlone(r) == \A q \in Runs \ {r} : pc[q] \in Ended \cup {"idle"}

C23_NoRetries ==
    \A r \in Runs :
        /\ Len(searches[r]) <= 1
        /\ Len(reads[r]) <= 1
        /\ Len(writes[r]) <= 1

C25_FieldResolversAgree ==
    \A r \in Runs :
        /\ FieldsDone(r) =>
              /\ GetActiveMetrics(cache[r].df).exc = ""
              /\ GetActiveMetrics(cache[r].df).val = fields[r]
        /\ (QueryDone(r) /\ libMetrics[r].exc = "") =>
              /\ GetActiveMetricsList(cache[r].df).exc = ""
              /\ GetActiveMetricsList(cache[r].df).val = libMetrics[r].val

\* C26 (the two parameter resolvers agree): on every configuration table,
\* get_query_parameters and the pair get_period_days, get_limit either all
\* return or raise alike, and when they return, period_days and limit of the
\* former are the values of the latter.
C26_ParameterResolversAgree ==
    \A r \in Runs :
        (QueryDone(r) /\ libParams[r] # NotCalled) =>
            LET p == GetPeriodDays(cache[r].df)
                l == GetLimit(cache[r].df)
            IN /\ libParams[r].exc = "" <=> (p.exc = "" /\ l.exc = "")
               /\ libParams[r].exc = "" =>
                     /\ libParams[r].period_days = p.val
                     /\ libParams[r].limit = l.val

\* ------------------------------------------------ failed configuration load
\* C27 (a failed configuration load leaves the cache empty): a call of
\* get_metrics_config that reads the store either caches a table with at least
\* one definition row or raises and leaves the cache unset, which is the
\* condition under which the next call reads the store again; it raises when
\* the read of the store raises and when the sheet holds no definition row.
\* The cache is never set to a table without definition rows.  A run of the
\* report flow whose load raised is failed with that exception (exit status
\* 1): it is not stopped as after a failed query, and it has made no search,
\* read or write.
C27_FailedLoadLeavesCacheEmpty ==
    [][\A r \in Runs :
          /\ cache'[r].set => Len(cache'[r].df.data) >= 1
          /\ loads'[r] # loads[r] =>
                /\ ~cache[r].set
                /\ Len(ReadRange(cfgsheet)) <= 1 => ~cache'[r].set
                /\ cache'[r].set =>
                      /\ cache'[r].df = ReadAsDataframe(ReadRange(cfgsheet)).df
                      /\ pc'[r] \notin Ended /\ error'[r] = ""
                /\ ~cache'[r].set =>
                      /\ cache'[r] = cache[r]
                      /\ pc'[r] = "failed" /\ error'[r] # ""
          /\ (loads[r] >= 1 /\ ~cache[r].set) =>
                /\ pc[r] = "failed" /\ ExitStatus(r) = 1
                /\ searches[r] = <<>> /\ reads[r] = <<>> /\ writes[r] = <<>>
                /\ UNCHANGED <<pc[r], cache[r], loads[r]>>]_vars
C27_Witness ==
    \E r \in Runs :
        /\ mode[r] = "live" /\ loads[r] = 1
        /\ Len(ReadRange(cfgsheet)) = 1
        /\ ~cache[r].set
        /\ pc[r] = "failed" /\ error[r] = "IndexError"

====
